---- MODULE Spec2Model ----
(***************************************************************************)
(* A model of xdelta3-merge.h: the whole-target accumulator                *)
(* (xd3_whole_append_window / xd3_whole_append_inst), the position index   *)
(* (xd3_merge_find_position) and the merge engine (xd3_merge_inputs with   *)
(* xd3_merge_run, xd3_merge_add, xd3_merge_target_copy and                 *)
(* xd3_merge_source_copy).                                                 *)
(*                                                                         *)
(* C arrays are 0-based, TLA+ sequences 1-based: inst[i] of the code is    *)
(* At(inst, i) here.  instlen and addslen are Len(inst) and Len(adds).     *)
(***************************************************************************)
EXTENDS Integers, Sequences, FiniteSets, TLC

VARIABLES
  pc,            \* position of the running function
  ret,           \* the value the running function returned (0 while it runs)
  msg,           \* msg of the stream in hand
  stream,        \* *stream of xd3_merge_input_output while tmp_stream is in hand
  srcfile,       \* the bytes of the source file S
  file,          \* which delta file the decoder is on (1: source delta, 2: input delta)
  whole_target,  \* whole_target of the stream in hand
  source,        \* *source of xd3_merge_inputs
  input,         \* *input of xd3_merge_inputs
  dec_current1,  \* stream->dec_current1
  dec_current2,  \* stream->dec_current2
  dec_win_ind,   \* stream->dec_win_ind
  dec_cpyoff,    \* stream->dec_cpyoff
  dec_cpylen,    \* stream->dec_cpylen
  total_out,     \* stream->total_out
  data_buf,      \* stream->data_sect.buf, as an offset into the data section
  input_i,       \* input_i of xd3_merge_inputs
  iinst,         \* the local copy iinst of xd3_merge_source_copy
  sinst_num,     \* sinst_num of xd3_merge_source_copy
  oob,           \* TRUE once source->inst or source->adds was read out of bounds
  address,       \* address of xd3_merge_find_position
  low,           \* low of xd3_merge_find_position
  high,          \* high of xd3_merge_find_position
  inst_num       \* *inst_num of xd3_merge_find_position

vars == <<pc, ret, msg, stream, srcfile, file, whole_target, source, input, dec_current1,
          dec_current2, dec_win_ind, dec_cpyoff, dec_cpylen, total_out,
          data_buf, input_i, iinst, sinst_num, oob, address, low, high,
          inst_num>>

(***************************************************************************)
(* Bounds of the model.                                                    *)
(***************************************************************************)
\* length of the source file S
SrcLen == 3
\* largest size of a decoded instruction
MaxSize == 2
\* most instructions in the source delta
MaxSrcInst == 2
\* most instructions in the input delta
MaxInInst == 2
\* how far the input delta's declared source window may exceed the real one
MaxExtra == 1
\* most instructions of a state searched by the position index alone
MaxFindInst == 3
\* most instructions appended by the window appender alone
MaxAppInst == 3
\* largest window offset / window length of the window appender alone
MaxOff == 1
\* most reads past the end of source->inst that are followed
MaxOobReads == 2

(***************************************************************************)
(* Constants of xdelta3.h (not among the source files at hand).            *)
(***************************************************************************)
XD3_NOOP == 0
XD3_ADD == 1
XD3_RUN == 2
XD3_CPY == 3
VCD_SOURCE == 1
VCD_TARGET == 2
VCD_SRCORTGT == 3
VCD_ADLER32 == 4
ENOMEM == 12
XD3_INTERNAL == -17710
XD3_INVALID_INPUT == -17712
\* XD3_ALLOCSIZE is 1 << 14 in xdelta3.h; scaled down so that buffers grow
\* (and the allocator can fail) within a few instructions.
XD3_ALLOCSIZE == 2
\* sizeof (xd3_winst): uint8 type, uint8 mode, usize_t size, xoff_t addr, position
SizeofWinst == 24
\* usize_t arithmetic wraps at 2^32; TLC's integers end at 2^31 - 1, so the
\* wrap is modelled at 2^30.  It happens only after a read out of bounds.
USizeMod == 1073741824

At(seq, i) == seq[i + 1]
Min(a, b) == IF a < b THEN a ELSE b

\* SRCORTGT (x): x & VCD_SRCORTGT selects the window's source mode
SRCORTGT(x) ==
  IF x % (VCD_SRCORTGT + 1) = VCD_SOURCE THEN VCD_SOURCE
  ELSE IF x % (VCD_SRCORTGT + 1) = VCD_TARGET THEN VCD_TARGET ELSE 0

\* xd3_round_blksize: sz rounded up to a multiple of blksz
xd3_round_blksize(sz, blksz) ==
  IF sz % blksz = 0 THEN sz ELSE sz + (blksz - (sz % blksz))

(***************************************************************************)
(* Records.                                                                *)
(***************************************************************************)
Winst(t, m, s, p, a) == [type |-> t, mode |-> m, size |-> s, position |-> p, addr |-> a]
Hinst(t, s, a) == [type |-> t, size |-> s, addr |-> a]
NoopInst == Hinst(XD3_NOOP, 0, 0)
ZeroWinst == Winst(0, 0, 0, 0, 0)

\* What an instruction slot nobody wrote may hold, a freshly allocated one
\* or one read past source->inst: zeroes, as untouched memory usually is, or
\* what an earlier use of the memory left there.
JunkWinst == {ZeroWinst, Winst(XD3_CPY, VCD_SOURCE, 1, 0, 0), Winst(XD3_ADD, 0, 1, 1, 1)}
\* What a byte read outside a buffer may be.
JunkByte == {0, 99}

\* The whole state xd3_whole_state_init leaves: empty buffers of one quantum.
WholeStateInit ==
  [inst |-> <<>>, adds |-> <<>>, length |-> 0,
   inst_alloc |-> XD3_ALLOCSIZE \div SizeofWinst,
   adds_alloc |-> XD3_ALLOCSIZE]

\* The return value of xd3_whole_state_init, given the answers of xd3_alloc
\* for the arena and for the instruction vector.
xd3_whole_state_init(okAdds, okInst) == IF okAdds /\ okInst THEN 0 ELSE ENOMEM

\* The whole state of a stream after xd3_free_stream: its buffers are freed
\* and the stream is zeroed.
FreedWholeState ==
  [inst |-> <<>>, adds |-> <<>>, length |-> 0, inst_alloc |-> 0, adds_alloc |-> 0]

\* The fields of a stream, other than its whole state, that the model keeps.
StreamFields(m, c1, c2, ind, off, len, out, db) ==
  [msg |-> m, dec_current1 |-> c1, dec_current2 |-> c2, dec_win_ind |-> ind,
   dec_cpyoff |-> off, dec_cpylen |-> len, total_out |-> out, data_buf |-> db]

\* A zeroed stream, as memset leaves tmp_stream.
ZeroStream == StreamFields("", Hinst(0, 0, 0), Hinst(0, 0, 0), 0, 0, 0, 0, 0)

\* What xd3_config_stream (& tmp_stream, NULL) may return.
ConfigAnswers == {0, XD3_INTERNAL}

\* xd3_swap_whole_state: *a and *b after the call.
xd3_swap_whole_state(a, b) == [a |-> b, b |-> a]

\* The source files S tried: one byte, and SrcLen bytes, all different.
SrcFileOf(n) == [i \in 1..n |-> i]
SrcFiles == {SrcFileOf(1), SrcFileOf(SrcLen)}
\* The byte at offset k of the data section of delta file f.
DataByte(f, k) == 16 * f + k

(***************************************************************************)
(* xd3_realloc_buffer: the new *alloc_size and the return value; allocOk   *)
(* is whether xd3_alloc succeeds when it is called.                        *)
(***************************************************************************)
xd3_realloc_buffer(current_units, unit_size, new_units, alloc_size, allocOk) ==
  LET needed == (current_units + new_units) * unit_size
      new_alloc == xd3_round_blksize(needed * 2, XD3_ALLOCSIZE)
  IN IF needed <= alloc_size THEN [ret |-> 0, alloc |-> alloc_size]
     ELSE IF ~allocOk THEN [ret |-> ENOMEM, alloc |-> alloc_size]
     ELSE [ret |-> 0, alloc |-> new_alloc]

\* The answers xd3_alloc can give to a reserve: it is called only when the
\* buffer has to grow.
AllocAnswers(current_units, unit_size, new_units, alloc_size) ==
  IF (current_units + new_units) * unit_size <= alloc_size THEN {TRUE} ELSE BOOLEAN

WinstAnswers(wt) == AllocAnswers(Len(wt.inst), SizeofWinst, 1, wt.inst_alloc)
AddsAnswers(wt, count) == AllocAnswers(Len(wt.adds), 1, count, wt.adds_alloc)

\* xd3_whole_alloc_winst: on success instlen grows by one; the new slot is
\* not written (it holds junk).
xd3_whole_alloc_winst(wt, allocOk, junk) ==
  LET r == xd3_realloc_buffer(Len(wt.inst), SizeofWinst, 1, wt.inst_alloc, allocOk)
  IN IF r.ret # 0 THEN [ret |-> r.ret, wt |-> wt]
     ELSE [ret |-> 0,
           wt |-> [wt EXCEPT !.inst = Append(@, junk), !.inst_alloc = r.alloc]]

\* xd3_whole_alloc_adds: room for count more bytes; addslen is unchanged.
xd3_whole_alloc_adds(wt, count, allocOk) ==
  LET r == xd3_realloc_buffer(Len(wt.adds), 1, count, wt.adds_alloc, allocOk)
  IN [ret |-> r.ret, wt |-> [wt EXCEPT !.adds_alloc = r.alloc]]

\* The last instruction slot of wt, the one xd3_whole_alloc_winst returned.
SetLast(wt, w) == [wt EXCEPT !.inst[Len(wt.inst)] = w]
Last(wt) == wt.inst[Len(wt.inst)]

\* The bytes data[from .. from+n-1] of the data section of delta file f.
DataBytes(f, from, n) == [k \in 1..n |-> DataByte(f, from + k - 1)]

(***************************************************************************)
(* xd3_whole_append_inst, applied to the whole state wt with the data      *)
(* cursor at db.  okW and okA are the allocator's answers to the           *)
(* instruction reserve and the arena reserve; junk is what the new slot    *)
(* held.  Yields the return value, the whole state and the data cursor.    *)
(***************************************************************************)
\* TargetCopyAddr without the subtraction of the source segment's length.
TargetCopyAddrNoSegment(inst) == total_out + inst.addr

\* The address of a copy from the window's own target (the else branch).
TargetCopyAddr(inst) == total_out + inst.addr - dec_cpylen

xd3_whole_append_inst(wt, db, inst, okW, okA, junk) ==
  LET a1 == xd3_whole_alloc_winst(wt, okW, junk)
      w1 == [junk EXCEPT !.type = inst.type, !.mode = 0, !.size = inst.size,
                         !.position = wt.length]
      wt1 == [SetLast(a1.wt, w1) EXCEPT !.length = @ + inst.size]
      a2 == xd3_whole_alloc_adds(wt1, IF inst.type = XD3_RUN THEN 1 ELSE inst.size, okA)
      wt2 == IF inst.type \in {XD3_ADD, XD3_RUN} THEN a2.wt ELSE wt1
      addslen == Len(wt2.adds)
  IN IF a1.ret # 0 THEN [ret |-> a1.ret, wt |-> wt, data_buf |-> db]
     ELSE IF inst.type \in {XD3_ADD, XD3_RUN} /\ a2.ret # 0
       THEN [ret |-> a2.ret, wt |-> a2.wt, data_buf |-> db]
     ELSE IF inst.type = XD3_RUN
       THEN [ret |-> 0,
             wt |-> [SetLast(wt2, [w1 EXCEPT !.addr = addslen])
                       EXCEPT !.adds = Append(@, DataByte(file, db))],
             data_buf |-> db + 1]
     ELSE IF inst.type = XD3_ADD
       THEN [ret |-> 0,
             wt |-> [SetLast(wt2, [w1 EXCEPT !.addr = addslen])
                       EXCEPT !.adds = @ \o DataBytes(file, db, inst.size)],
             data_buf |-> db + inst.size]
     ELSE IF inst.addr < dec_cpylen
       THEN [ret |-> 0,
             wt |-> SetLast(wt2, [w1 EXCEPT !.mode = SRCORTGT(dec_win_ind),
                                            !.addr = dec_cpyoff + inst.addr]),
             data_buf |-> db]
     ELSE [ret |-> 0,
           wt |-> SetLast(wt2, [w1 EXCEPT !.addr = TargetCopyAddr(inst)]),
           data_buf |-> db]

(***************************************************************************)
(* xd3_merge_find_position.  FindBody is one pass through the loop body    *)
(* from (lo, hi): the next (low, high) or the index found.  FindLoop runs  *)
(* the loop to its end.                                                    *)
(***************************************************************************)
FindMid(lo, hi) == lo + (hi - lo) \div 2

\* FindBody with the upper test off by one (address > mid_hpos).
FindBodyUpperOffByOne(src, a, lo, hi) ==
  LET mid == FindMid(lo, hi)
      mid_lpos == At(src.inst, mid).position
      mid_hpos == mid_lpos + At(src.inst, mid).size
  IN IF a < mid_lpos THEN [found |-> FALSE, low |-> lo, high |-> mid, inst_num |-> 0]
     ELSE IF a > mid_hpos THEN [found |-> FALSE, low |-> mid + 1, high |-> hi, inst_num |-> 0]
     ELSE [found |-> TRUE, low |-> lo, high |-> hi, inst_num |-> mid]

FindBody(src, a, lo, hi) ==
  LET mid == FindMid(lo, hi)
      mid_lpos == At(src.inst, mid).position
      mid_hpos == mid_lpos + At(src.inst, mid).size
  IN IF a < mid_lpos THEN [found |-> FALSE, low |-> lo, high |-> mid, inst_num |-> 0]
     ELSE IF a >= mid_hpos THEN [found |-> FALSE, low |-> mid + 1, high |-> hi, inst_num |-> 0]
     ELSE [found |-> TRUE, low |-> lo, high |-> hi, inst_num |-> mid]

RECURSIVE FindLoop(_, _, _, _)
FindLoop(src, a, lo, hi) ==
  IF lo = hi THEN [ret |-> XD3_INTERNAL, inst_num |-> 0]
  ELSE LET b == FindBody(src, a, lo, hi)
       IN IF b.found THEN [ret |-> 0, inst_num |-> b.inst_num]
          ELSE FindLoop(src, a, b.low, b.high)

xd3_merge_find_position(src, a) ==
  IF a >= src.length THEN [ret |-> XD3_INVALID_INPUT, inst_num |-> 0]
  ELSE FindLoop(src, a, 0, Len(src.inst))

(***************************************************************************)
(* The merge engine's per-instruction functions.  Each yields the return   *)
(* value and the output whole state.  XD3_ASSERT compiles to nothing.      *)
(***************************************************************************)
\* adds[k] of a whole state; jb is what a read outside the arena gives.
ReadAdds(st, k, jb) == IF k >= 0 /\ k < Len(st.adds) THEN At(st.adds, k) ELSE jb
ReadAddsN(st, k, n, jb) == [i \in 1..n |-> ReadAdds(st, k + i - 1, jb)]

xd3_merge_run(wt, target, ii, okW, okA, junk) ==
  LET a1 == xd3_whole_alloc_winst(wt, okW, junk)
      a2 == xd3_whole_alloc_adds(a1.wt, 1, okA)
      oinst == Winst(ii.type, ii.mode, ii.size, wt.length, Len(wt.adds))
  IN IF a1.ret # 0 THEN [ret |-> a1.ret, wt |-> wt]
     ELSE IF a2.ret # 0 THEN [ret |-> a2.ret, wt |-> a2.wt]
     ELSE [ret |-> 0,
           wt |-> [SetLast(a2.wt, oinst) EXCEPT
                     !.length = @ + ii.size,
                     !.adds = Append(@, ReadAdds(target, ii.addr, 0))]]

xd3_merge_add(wt, target, ii, okW, okA, junk) ==
  LET a1 == xd3_whole_alloc_winst(wt, okW, junk)
      a2 == xd3_whole_alloc_adds(a1.wt, ii.size, okA)
      oinst == Winst(ii.type, ii.mode, ii.size, wt.length, Len(wt.adds))
  IN IF a1.ret # 0 THEN [ret |-> a1.ret, wt |-> wt]
     ELSE IF a2.ret # 0 THEN [ret |-> a2.ret, wt |-> a2.wt]
     ELSE [ret |-> 0,
           wt |-> [SetLast(a2.wt, oinst) EXCEPT
                     !.length = @ + ii.size,
                     !.adds = @ \o ReadAddsN(target, ii.addr, ii.size, 0)]]

\* xd3_merge_target_copy without the update of the length.
xd3_merge_target_copy_NoLength(wt, ii, okW, junk) ==
  LET a1 == xd3_whole_alloc_winst(wt, okW, junk)
  IN IF a1.ret # 0 THEN [ret |-> a1.ret, wt |-> wt]
     ELSE [ret |-> 0, wt |-> SetLast(a1.wt, ii)]

xd3_merge_target_copy(wt, ii, okW, junk) ==
  LET a1 == xd3_whole_alloc_winst(wt, okW, junk)
  IN IF a1.ret # 0 THEN [ret |-> a1.ret, wt |-> wt]
     ELSE [ret |-> 0,
           wt |-> [SetLast(a1.wt, ii) EXCEPT !.length = @ + ii.size]]

\* The mode and address the loop of xd3_merge_source_copy gives the output
\* instruction when the source instruction is a copy (the default case).
SourceCopyOfCopy(minst, sinst, sinst_offset) ==
  [minst EXCEPT !.mode = VCD_SOURCE, !.addr = sinst.addr + sinst_offset]

\* SourceCopyAdvance without the update of the position.
SourceCopyAdvanceNoPosition(ii, this_take) ==
  [ii EXCEPT !.addr = @ + this_take, !.size = @ - this_take]

\* The local iinst after a pass of the loop that took this_take bytes.
SourceCopyAdvance(ii, this_take) ==
  [ii EXCEPT !.position = @ + this_take, !.addr = @ + this_take, !.size = @ - this_take]

\* ThisTake from the source instruction's whole size, not what is left of it.
ThisTakeWholeSize(ii, sinst) == Min(ii.size, sinst.size)

\* this_take of the loop of xd3_merge_source_copy
ThisTake(ii, sinst) ==
  LET sinst_offset == (ii.addr - sinst.position) % USizeMod
      sinst_left == (sinst.size - sinst_offset) % USizeMod
  IN Min(ii.size, sinst_left)

\* One pass through the loop body of xd3_merge_source_copy, with sinst the
\* instruction read at source->inst[snum] and jb what a read outside
\* source->adds gives.  Yields the return value, the output whole state,
\* the local iinst and sinst_num.
SourceCopyBody(wt, src, ii, snum, sinst, okW, okA, junk, jb) ==
  LET sinst_offset == (ii.addr - sinst.position) % USizeMod
      this_take == ThisTake(ii, sinst)
      a1 == xd3_whole_alloc_winst(wt, okW, junk)
      m1 == [junk EXCEPT !.size = this_take, !.type = sinst.type,
                         !.position = ii.position, !.mode = 0]
      wt1 == SetLast(a1.wt, m1)
      a2 == xd3_whole_alloc_adds(wt1, IF sinst.type = XD3_RUN THEN 1 ELSE this_take, okA)
      addslen == Len(wt.adds)
      wt2 == IF sinst.type = XD3_RUN
               THEN [SetLast(a2.wt, [m1 EXCEPT !.addr = addslen]) EXCEPT
                       !.adds = Append(@, ReadAdds(src, sinst.addr, jb))]
             ELSE IF sinst.type = XD3_ADD
               THEN [SetLast(a2.wt, [m1 EXCEPT !.addr = addslen]) EXCEPT
                       !.adds = @ \o ReadAddsN(src, sinst.addr + sinst_offset, this_take, jb)]
             ELSE SetLast(wt1, SourceCopyOfCopy(m1, sinst, sinst_offset))
  IN IF a1.ret # 0
       THEN [ret |-> a1.ret, wt |-> wt, iinst |-> ii, sinst_num |-> snum]
     ELSE IF sinst.type \in {XD3_RUN, XD3_ADD} /\ a2.ret # 0
       THEN [ret |-> a2.ret, wt |-> a2.wt, iinst |-> ii, sinst_num |-> snum]
     ELSE [ret |-> 0,
           wt |-> [wt2 EXCEPT !.length = @ + this_take],
           iinst |-> SourceCopyAdvance(ii, this_take),
           sinst_num |-> snum + 1]

(***************************************************************************)
(* The decoder's side (xd3_decode_instruction and the window header are    *)
(* not in xdelta3-merge.h): the half instructions a window may hold at     *)
(* window position p.  A copy lies inside the window's source segment, or  *)
(* inside the part of the window's target already produced.                *)
(***************************************************************************)
Sizes == 1..MaxSize

DecodableHinsts(p) ==
  {Hinst(t, s, 0) : t \in {XD3_RUN, XD3_ADD}, s \in Sizes}
  \cup {h \in {Hinst(XD3_CPY, s, a) : s \in Sizes, a \in 0..(dec_cpylen + p)} :
          \/ h.addr + h.size <= dec_cpylen
          \/ h.addr >= dec_cpylen /\ h.addr - dec_cpylen + h.size <= p}

NonNoop(h) == IF h.type = XD3_NOOP THEN 0 ELSE 1

(***************************************************************************)
(* xd3_whole_append_window, one action per step of its loop.               *)
(***************************************************************************)
MergeVarsUnchanged ==
  UNCHANGED <<stream, srcfile, source, input, input_i, iinst, sinst_num, oob, address,
              low, high, inst_num>>

WindowUnchanged == UNCHANGED <<file, dec_win_ind, dec_cpyoff, dec_cpylen, total_out>>

\* The shapes of an instruction pair.  Any pair of half instructions, NOOP
\* included, is accepted by the loop; the default code table pairs only an
\* ADD with a COPY, and its first half is never a NOOP.
AnyPair(h1, h2) == TRUE

TablePair(h1, h2) ==
  /\ h1.type # XD3_NOOP
  /\ h2.type # XD3_NOOP => {h1.type, h2.type} = {XD3_ADD, XD3_CPY}

\* The loop test succeeds and xd3_decode_instruction fills dec_current1 and
\* dec_current2; maxInst bounds the instructions of the delta, and table says
\* whether the pairs are those of the default code table.
DecodeInstruction(maxInst, table) ==
  /\ pc = "win_loop"
  /\ \/ \E h1 \in DecodableHinsts(whole_target.length - total_out) \cup {NoopInst} :
          \E h2 \in DecodableHinsts(whole_target.length - total_out + h1.size) \cup {NoopInst} :
            /\ IF table THEN TablePair(h1, h2) ELSE AnyPair(h1, h2)
            /\ Len(whole_target.inst) + NonNoop(h1) + NonNoop(h2) <= maxInst
            /\ dec_current1' = h1
            /\ dec_current2' = h2
            /\ pc' = "cur1"
            /\ UNCHANGED ret
     \* xd3_decode_instruction fails: xd3_whole_append_window returns its
     \* error with nothing appended.
     \/ /\ ret' = XD3_INVALID_INPUT
        /\ pc' = "win_ret"
        /\ UNCHANGED <<dec_current1, dec_current2>>
  /\ UNCHANGED <<msg, whole_target, data_buf>>
  /\ WindowUnchanged /\ MergeVarsUnchanged

\* The half instruction at hand is appended unless it is a NOOP; an error
\* returns from xd3_whole_append_window.
AppendHalf(inst, next) ==
  /\ \E okW \in WinstAnswers(whole_target),
        okA \in AddsAnswers(whole_target, IF inst.type = XD3_RUN THEN 1 ELSE inst.size),
        junk \in JunkWinst :
       LET r == IF inst.type # XD3_NOOP
                  THEN xd3_whole_append_inst(whole_target, data_buf, inst, okW, okA, junk)
                  ELSE [ret |-> 0, wt |-> whole_target, data_buf |-> data_buf]
       IN /\ whole_target' = r.wt
          /\ data_buf' = r.data_buf
          /\ ret' = r.ret
          /\ pc' = IF r.ret # 0 THEN "win_ret" ELSE next
  /\ UNCHANGED <<msg, dec_current1, dec_current2>>
  /\ WindowUnchanged /\ MergeVarsUnchanged

AppendCurrent1 == pc = "cur1" /\ AppendHalf(dec_current1, "cur2")

AppendCurrent2 == pc = "cur2" /\ AppendHalf(dec_current2, "win_loop")

(***************************************************************************)
(* xd3_merge_find_position, one action per step.                           *)
(***************************************************************************)
FindOthersUnchanged ==
  UNCHANGED <<stream, srcfile, file, whole_target, source, input, dec_current1, dec_current2,
              dec_win_ind, dec_cpyoff, dec_cpylen, total_out, data_buf,
              input_i, iinst, sinst_num, oob, address>>

FindEntry ==
  /\ pc = "find_entry"
  /\ IF address >= source.length
       THEN /\ msg' = "Invalid copy offset in merge"
            /\ ret' = XD3_INVALID_INPUT
            /\ pc' = "find_ret"
            /\ UNCHANGED <<low, high>>
       ELSE /\ low' = 0
            /\ high' = Len(source.inst)
            /\ pc' = "find_loop"
            /\ UNCHANGED <<msg, ret>>
  /\ UNCHANGED inst_num
  /\ FindOthersUnchanged

FindIterate ==
  /\ pc = "find_loop"
  /\ IF low = high
       THEN /\ msg' = "Internal error in merge"
            /\ ret' = XD3_INTERNAL
            /\ pc' = "find_ret"
            /\ UNCHANGED <<low, high, inst_num>>
       ELSE LET b == FindBody(source, address, low, high)
            IN /\ low' = b.low
               /\ high' = b.high
               /\ inst_num' = IF b.found THEN b.inst_num ELSE inst_num
               /\ pc' = IF b.found THEN "find_ret" ELSE "find_loop"
               /\ UNCHANGED <<msg, ret>>
  /\ FindOthersUnchanged

(***************************************************************************)
(* xd3_merge_inputs: one action per pass of its for loop, and one per pass *)
(* of the loop of xd3_merge_source_copy.  The for loop's ++input_i runs    *)
(* after every body, also one that set ret.                                *)
(***************************************************************************)
DecoderUnchanged ==
  UNCHANGED <<stream, srcfile, file, dec_current1, dec_current2, dec_win_ind, dec_cpyoff,
              dec_cpylen, total_out, data_buf>>

FindVarsUnchanged == UNCHANGED <<address, low, high, inst_num>>

InLoop == pc = "merge_loop" /\ input_i < Len(input.inst)

CurInst == At(input.inst, input_i)

MergeRun ==
  /\ InLoop
  /\ CurInst.type = XD3_RUN
  /\ \E okW \in WinstAnswers(whole_target), okA \in AddsAnswers(whole_target, 1),
        junk \in JunkWinst :
       LET r == xd3_merge_run(whole_target, input, CurInst, okW, okA, junk)
       IN /\ whole_target' = r.wt
          /\ ret' = r.ret
          /\ pc' = IF r.ret = 0 THEN "merge_loop" ELSE "merge_ret"
  /\ input_i' = input_i + 1
  /\ UNCHANGED <<msg, source, input, iinst, sinst_num, oob>>
  /\ DecoderUnchanged /\ FindVarsUnchanged

MergeAdd ==
  /\ InLoop
  /\ CurInst.type = XD3_ADD
  /\ \E okW \in WinstAnswers(whole_target),
        okA \in AddsAnswers(whole_target, CurInst.size), junk \in JunkWinst :
       LET r == xd3_merge_add(whole_target, input, CurInst, okW, okA, junk)
       IN /\ whole_target' = r.wt
          /\ ret' = r.ret
          /\ pc' = IF r.ret = 0 THEN "merge_loop" ELSE "merge_ret"
  /\ input_i' = input_i + 1
  /\ UNCHANGED <<msg, source, input, iinst, sinst_num, oob>>
  /\ DecoderUnchanged /\ FindVarsUnchanged

\* The default case of the switch, for a copy of mode 0 or VCD_TARGET.
MergeTargetCopy ==
  /\ InLoop
  /\ CurInst.type \notin {XD3_RUN, XD3_ADD}
  /\ CurInst.mode = 0 \/ CurInst.mode = VCD_TARGET
  /\ \E okW \in WinstAnswers(whole_target), junk \in JunkWinst :
       LET r == xd3_merge_target_copy(whole_target, CurInst, okW, junk)
       IN /\ whole_target' = r.wt
          /\ ret' = r.ret
          /\ pc' = IF r.ret = 0 THEN "merge_loop" ELSE "merge_ret"
  /\ input_i' = input_i + 1
  /\ UNCHANGED <<msg, source, input, iinst, sinst_num, oob>>
  /\ DecoderUnchanged /\ FindVarsUnchanged

\* The default case of the switch, for any other copy: xd3_merge_source_copy
\* up to its loop (the copy of iinst and the search of its address).
SourceCopyEnter ==
  /\ InLoop
  /\ CurInst.type \notin {XD3_RUN, XD3_ADD}
  /\ ~(CurInst.mode = 0 \/ CurInst.mode = VCD_TARGET)
  /\ iinst' = CurInst
  /\ LET r == xd3_merge_find_position(source, CurInst.addr)
     IN /\ ret' = r.ret
        /\ IF r.ret # 0
             THEN /\ msg' = IF r.ret = XD3_INVALID_INPUT
                              THEN "Invalid copy offset in merge"
                              ELSE "Internal error in merge"
                  /\ pc' = "merge_ret"
                  /\ input_i' = input_i + 1
                  /\ UNCHANGED sinst_num
             ELSE /\ sinst_num' = r.inst_num
                  /\ UNCHANGED msg
                  \* while (iinst.size > 0): a copy of size 0 returns 0 at once
                  /\ IF CurInst.size > 0
                       THEN pc' = "sc_loop" /\ UNCHANGED input_i
                       ELSE pc' = "merge_loop" /\ input_i' = input_i + 1
  /\ UNCHANGED <<whole_target, source, input, oob>>
  /\ DecoderUnchanged /\ FindVarsUnchanged

\* The allocator's answers to the arena reserve of one pass of the loop.
SourceCopyAddsAnswers(wt, ii, sinst) ==
  IF sinst.type = XD3_RUN THEN AddsAnswers(wt, 1)
  ELSE IF sinst.type = XD3_ADD THEN AddsAnswers(wt, ThisTake(ii, sinst))
  ELSE {TRUE}

\* What one pass of the loop leaves, given what SourceCopyBody yields.
SourceCopyPass(r) ==
  /\ whole_target' = r.wt
  /\ iinst' = r.iinst
  /\ sinst_num' = r.sinst_num
  /\ ret' = r.ret
  /\ IF r.ret # 0 THEN pc' = "merge_ret" /\ input_i' = input_i + 1
     ELSE IF r.iinst.size > 0 THEN pc' = "sc_loop" /\ UNCHANGED input_i
     ELSE pc' = "merge_loop" /\ input_i' = input_i + 1
  /\ UNCHANGED <<msg, source, input>>
  /\ DecoderUnchanged /\ FindVarsUnchanged

\* One pass of the loop of xd3_merge_source_copy with sinst_num inside
\* source->inst.
SourceCopyIterate ==
  /\ pc = "sc_loop"
  /\ iinst.size > 0
  /\ sinst_num < Len(source.inst)
  /\ \E okW \in WinstAnswers(whole_target),
        okA \in SourceCopyAddsAnswers(whole_target, iinst, At(source.inst, sinst_num)),
        junk \in JunkWinst :
       SourceCopyPass(SourceCopyBody(whole_target, source, iinst, sinst_num,
                                     At(source.inst, sinst_num), okW, okA, junk, 0))
  /\ UNCHANGED oob

\* One pass of the loop with sinst_num at or past source->instlen: the read
\* of source->inst[sinst_num] is outside the array.  The build stops there
\* (an enabled XD3_ASSERT, a fault), or goes on with whatever the read gave.
SourceCopyOutOfBounds ==
  /\ pc = "sc_loop"
  /\ iinst.size > 0
  /\ sinst_num >= Len(source.inst)
  /\ sinst_num < Len(source.inst) + MaxOobReads
  /\ oob' = TRUE
  /\ \/ /\ pc' = "abort"
        /\ UNCHANGED <<ret, msg, whole_target, source, input, input_i, iinst, sinst_num>>
        /\ DecoderUnchanged /\ FindVarsUnchanged
     \/ \E sinst \in JunkWinst, okW \in WinstAnswers(whole_target),
           junk \in JunkWinst, jb \in JunkByte :
          \E okA \in SourceCopyAddsAnswers(whole_target, iinst, sinst) :
          SourceCopyPass(SourceCopyBody(whole_target, source, iinst, sinst_num,
                                        sinst, okW, okA, junk, jb))

\* The for loop's test fails on input_i: xd3_merge_inputs returns ret (0).
MergeReturn ==
  /\ pc = "merge_loop"
  /\ input_i >= Len(input.inst)
  /\ pc' = "merge_ret"
  /\ UNCHANGED <<ret, msg, whole_target, source, input, input_i, iinst, sinst_num, oob>>
  /\ DecoderUnchanged /\ FindVarsUnchanged

(***************************************************************************)
(* The driver around the two decoders and the merge (the merge command;    *)
(* xd3_merge_input_output).                                                *)
(***************************************************************************)
\* The source delta is decoded: its whole state becomes *source, and the
\* input delta is decoded next by a fresh stream.  The input delta's window
\* declares a source segment of source.length + extra bytes.
SourceDecoded(extras) ==
  /\ pc = "win_loop"
  /\ file = 1
  /\ source' = whole_target
  /\ whole_target' = WholeStateInit
  /\ file' = 2
  /\ dec_current1' = NoopInst
  /\ dec_current2' = NoopInst
  /\ dec_win_ind' = VCD_SOURCE
  /\ dec_cpyoff' = 0
  /\ \E extra \in extras : dec_cpylen' = whole_target.length + extra
  /\ total_out' = 0
  /\ data_buf' = 0
  /\ UNCHANGED <<pc, ret, msg, stream, srcfile, input, input_i, iinst, sinst_num, oob>>
  /\ FindVarsUnchanged

\* xd3_merge_input_output up to its call of xd3_merge_inputs.  tmp_stream
\* is zeroed, configured and given an empty whole state: from here to the
\* return the stream in hand is tmp_stream, *input is stream->whole_target,
\* and the other fields of *stream wait in the variable stream.  An error of
\* xd3_config_stream or of xd3_whole_state_init is returned at once, *stream
\* untouched.
MergeInputOutput ==
  /\ pc = "win_loop"
  /\ file = 2
  /\ \E cfg \in ConfigAnswers, okAdds \in BOOLEAN, okInst \in BOOLEAN :
       /\ cfg # 0 => okAdds      \* xd3_whole_state_init is not called
       /\ ~okAdds => okInst      \* the second xd3_alloc is not called
       /\ ret' = IF cfg # 0 THEN cfg ELSE xd3_whole_state_init(okAdds, okInst)
       /\ IF ret' # 0
            THEN /\ pc' = "mio_ret"
                 /\ UNCHANGED <<msg, stream, whole_target, input, input_i, dec_current1,
                                dec_current2, dec_win_ind, dec_cpyoff, dec_cpylen,
                                total_out, data_buf>>
            ELSE /\ stream' = StreamFields(msg, dec_current1, dec_current2, dec_win_ind,
                                           dec_cpyoff, dec_cpylen, total_out, data_buf)
                 /\ input' = whole_target
                 /\ whole_target' = WholeStateInit
                 /\ input_i' = 0
                 /\ pc' = "merge_loop"
                 /\ msg' = ZeroStream.msg
                 /\ dec_current1' = ZeroStream.dec_current1
                 /\ dec_current2' = ZeroStream.dec_current2
                 /\ dec_win_ind' = ZeroStream.dec_win_ind
                 /\ dec_cpyoff' = ZeroStream.dec_cpyoff
                 /\ dec_cpylen' = ZeroStream.dec_cpylen
                 /\ total_out' = ZeroStream.total_out
                 /\ data_buf' = ZeroStream.data_buf
  /\ UNCHANGED <<srcfile, file, source, iinst, sinst_num, oob>>
  /\ FindVarsUnchanged

\* xd3_merge_input_output after xd3_merge_inputs has returned.  On an error
\* it returns it: stream->whole_target is still the input, the output made
\* so far and the message stay in tmp_stream.  Otherwise the output is
\* swapped into stream->whole_target, and tmp_stream, now holding the input,
\* is freed.  From here the stream in hand is *stream again, its other
\* fields as they were.
MergeInputOutputReturn ==
  /\ pc = "merge_ret"
  /\ pc' = "mio_ret"
  /\ IF ret # 0
       THEN /\ whole_target' = input
            /\ UNCHANGED input
       ELSE LET s == xd3_swap_whole_state(input, whole_target)
            IN /\ whole_target' = s.a
               /\ input' = FreedWholeState
  /\ msg' = stream.msg
  /\ dec_current1' = stream.dec_current1
  /\ dec_current2' = stream.dec_current2
  /\ dec_win_ind' = stream.dec_win_ind
  /\ dec_cpyoff' = stream.dec_cpyoff
  /\ dec_cpylen' = stream.dec_cpylen
  /\ total_out' = stream.total_out
  /\ data_buf' = stream.data_buf
  /\ stream' = ZeroStream
  /\ UNCHANGED <<ret, srcfile, file, source, input_i, iinst, sinst_num, oob>>
  /\ FindVarsUnchanged

\* The window indicators tried: no source segment, a segment of the source,
\* a segment of the earlier target, and a source segment with VCD_ADLER32.
WinInds == {0, VCD_SOURCE, VCD_TARGET, VCD_SOURCE + VCD_ADLER32}

\* xd3_whole_append_window returns 0 and the decoder goes on to the next
\* window of the same delta, whose header gives the source segment.
NextWindow ==
  /\ pc = "win_loop"
  /\ total_out' = whole_target.length
  /\ \E ind \in WinInds, off \in 0..MaxOff, len \in 0..MaxOff :
       /\ ind = 0 => (off = 0 /\ len = 0)
       /\ ind # 0 => len > 0
       /\ dec_win_ind' = ind
       /\ dec_cpyoff' = off
       /\ dec_cpylen' = len
  /\ <<dec_win_ind', dec_cpyoff', dec_cpylen', total_out'>>
       # <<dec_win_ind, dec_cpyoff, dec_cpylen, total_out>>
  /\ UNCHANGED <<pc, ret, msg, file, whole_target, dec_current1, dec_current2, data_buf>>
  /\ MergeVarsUnchanged

(***************************************************************************)
(* Initial states and specifications.                                      *)
(***************************************************************************)
InitCommon ==
  /\ ret = 0
  /\ msg = ""
  /\ stream = ZeroStream
  /\ file = 1
  /\ input = WholeStateInit
  /\ dec_current1 = NoopInst
  /\ dec_current2 = NoopInst
  /\ total_out = 0
  /\ data_buf = 0
  /\ input_i = 0
  /\ iinst = ZeroWinst
  /\ sinst_num = 0
  /\ oob = FALSE
  /\ low = 0
  /\ high = 0
  /\ inst_num = 0

\* The merge of two deltas: the decoder starts on the source delta, whose
\* one window has all of S as its source segment.
Init ==
  /\ InitCommon
  /\ pc = "win_loop"
  /\ whole_target = WholeStateInit
  /\ source = WholeStateInit
  /\ srcfile \in SrcFiles
  /\ dec_win_ind = VCD_SOURCE
  /\ dec_cpyoff = 0
  /\ dec_cpylen = Len(srcfile)
  /\ address = 0

MaxInst == IF file = 1 THEN MaxSrcInst ELSE MaxInInst

Decode == DecodeInstruction(MaxInst, TRUE)

MergeNext ==
  \/ MergeRun
  \/ MergeAdd
  \/ MergeTargetCopy
  \/ SourceCopyEnter
  \/ SourceCopyIterate
  \/ MergeReturn

\* Both deltas chain: the input delta's source segment is the source
\* delta's target.
ChainedSource == SourceDecoded({0})

Next ==
  \/ Decode
  \/ AppendCurrent1
  \/ AppendCurrent2
  \/ ChainedSource
  \/ MergeInputOutput
  \/ MergeNext
  \/ MergeInputOutputReturn

Spec == Init /\ [][Next]_vars

\* The input delta may have been made against a longer source than the
\* source delta's target.
AnySource == SourceDecoded(1..MaxExtra)

NextAny ==
  \/ Decode
  \/ AppendCurrent1
  \/ AppendCurrent2
  \/ AnySource
  \/ MergeInputOutput
  \/ MergeNext
  \/ SourceCopyOutOfBounds
  \/ MergeInputOutputReturn

SpecAny == Init /\ [][NextAny]_vars

\* The window appender alone, over the windows of one delta.
InitAppend ==
  /\ InitCommon
  /\ pc = "win_loop"
  /\ whole_target = WholeStateInit
  /\ source = WholeStateInit
  /\ srcfile = SrcFileOf(SrcLen)
  /\ dec_win_ind \in WinInds
  /\ dec_cpyoff \in 0..MaxOff
  /\ dec_cpylen \in 0..MaxOff
  /\ dec_win_ind = 0 => (dec_cpyoff = 0 /\ dec_cpylen = 0)
  /\ dec_win_ind # 0 => dec_cpylen > 0
  /\ address = 0

DecodeApp == DecodeInstruction(MaxAppInst, FALSE)

NextAppend ==
  \/ DecodeApp
  \/ AppendCurrent1
  \/ AppendCurrent2
  \/ NextWindow

SpecAppend == InitAppend /\ [][NextAppend]_vars

\* The position index alone: *source is a whole state the window appender
\* built from up to MaxFindInst instructions, address is any offset up to
\* one past its length.
RECURSIVE AppendAll(_, _, _)
AppendAll(wt, db, hs) ==
  IF hs = <<>> THEN wt
  ELSE LET r == xd3_whole_append_inst(wt, db, Head(hs), TRUE, TRUE, ZeroWinst)
       IN AppendAll(r.wt, r.data_buf, Tail(hs))

FindHinsts == {Hinst(t, s, 0) : t \in {XD3_RUN, XD3_ADD, XD3_CPY}, s \in Sizes}

InitFind ==
  /\ InitCommon
  /\ pc = "find_entry"
  /\ whole_target = WholeStateInit
  /\ srcfile = SrcFileOf(SrcLen)
  /\ dec_win_ind = VCD_SOURCE
  /\ dec_cpyoff = 0
  /\ dec_cpylen = MaxSize
  /\ source \in {AppendAll(WholeStateInit, 0, hs) :
                   hs \in UNION {[1..n -> FindHinsts] : n \in 0..MaxFindInst}}
  /\ address \in 0..(source.length + 1)

NextFind ==
  \/ FindEntry
  \/ FindIterate

SpecFind == InitFind /\ [][NextFind]_vars

(***************************************************************************)
(* What the properties below are stated with.                              *)
(***************************************************************************)
\* Invariant I1 of a whole state: the instructions start at 0, touch, are
\* strictly ordered by position, and end at the state's length.
I1(st) ==
  /\ Len(st.inst) = 0 => st.length = 0
  /\ Len(st.inst) > 0 =>
       /\ st.inst[1].position = 0
       /\ Last(st).position + Last(st).size = st.length
  /\ \A i \in 1..(Len(st.inst) - 1) :
       /\ st.inst[i].position + st.inst[i].size = st.inst[i + 1].position
       /\ st.inst[i].position < st.inst[i + 1].position

\* The instruction of st at index i (from 0) produces target byte a.
Covers(st, i, a) ==
  /\ At(st.inst, i).position <= a
  /\ a < At(st.inst, i).position + At(st.inst, i).size

\* A reference applier: the target a whole state produces from the source
\* bytes src.  A byte that an address outside its buffer names is -1.
ByteAt(seq, k) == IF k >= 0 /\ k < Len(seq) THEN At(seq, k) ELSE -1

RECURSIVE CopyFromTarget(_, _, _)
CopyFromTarget(out, a, n) ==
  IF n = 0 THEN out ELSE CopyFromTarget(Append(out, ByteAt(out, a)), a + 1, n - 1)

ApplyInst(out, st, w, src) ==
  IF w.type = XD3_RUN THEN out \o [k \in 1..w.size |-> ByteAt(st.adds, w.addr)]
  ELSE IF w.type = XD3_ADD THEN out \o [k \in 1..w.size |-> ByteAt(st.adds, w.addr + k - 1)]
  ELSE IF w.mode = VCD_SOURCE THEN out \o [k \in 1..w.size |-> ByteAt(src, w.addr + k - 1)]
  ELSE CopyFromTarget(out, w.addr, w.size)

RECURSIVE ApplyFrom(_, _, _, _)
ApplyFrom(out, st, i, src) ==
  IF i >= Len(st.inst) THEN out
  ELSE ApplyFrom(ApplyInst(out, st, At(st.inst, i), src), st, i + 1, src)

Apply(st, src) == ApplyFrom(<<>>, st, 0, src)

\* xd3_merge_inputs has returned 0.
MergeDone == pc = "merge_ret" /\ ret = 0

(***************************************************************************)
(* C1.  Semantic equivalence of the merge: when xd3_merge_inputs returns   *)
(* 0 for a source delta A = delta(S -> M) and an input delta               *)
(* B = delta(M -> T), applying the output to S gives exactly T, whatever   *)
(* kind of instruction of A (RUN, ADD, COPY from S, COPY of mode 0) the    *)
(* source copies of B land on; and the merge fails only for lack of        *)
(* memory.                                                                 *)
(***************************************************************************)
SemanticEquivalence ==
  /\ pc = "merge_ret" => ret \in {0, ENOMEM}
  /\ MergeDone =>
       Apply(whole_target, srcfile) = Apply(input, Apply(source, srcfile))

(***************************************************************************)
(* C2.  Length preservation: when xd3_merge_inputs returns 0 the output's  *)
(* length is input.length; after the first n input instructions it is      *)
(* input.inst[n].position, and inside the loop of xd3_merge_source_copy it *)
(* is the running position of the local iinst.                             *)
(***************************************************************************)
LengthPreserved ==
  /\ MergeDone =>
       /\ input_i = Len(input.inst)
       /\ whole_target.length = input.length
  /\ (pc = "merge_loop" /\ input_i < Len(input.inst)) =>
       whole_target.length = CurInst.position
  /\ (pc = "merge_loop" /\ input_i >= Len(input.inst)) =>
       whole_target.length = input.length
  /\ pc = "sc_loop" =>
       /\ whole_target.length = iinst.position
       /\ iinst.position + iinst.size = CurInst.position + CurInst.size

\* A merge of two instructions has returned 0, one of them a source copy
\* that was split in two.
LengthPreservedWitness ==
  /\ MergeDone
  /\ Len(input.inst) = 2
  /\ Len(whole_target.inst) = 3
  /\ whole_target.length = 4
  /\ \E i \in 1..2 : input.inst[i].type = XD3_CPY /\ input.inst[i].mode = 0

(***************************************************************************)
(* C3.  Invariant I1 (ordering and contiguity): the whole state the window *)
(* appender builds satisfies I1 after every xd3_whole_append_inst, also a  *)
(* failed one, and so do *source and *input; the output of                 *)
(* xd3_merge_inputs satisfies I1 after every instruction it emits and when *)
(* it returns 0.                                                           *)
(***************************************************************************)
Contiguity ==
  /\ I1(source)
  /\ I1(input)
  /\ (ret = 0 \/ pc = "win_ret") => I1(whole_target)

\* A merge has returned 0 with an output of three instructions, among them
\* one emitted for a source ADD and one for a source COPY.
ContiguityWitness ==
  /\ MergeDone
  /\ Len(whole_target.inst) = 3
  /\ \E i \in 1..3 : whole_target.inst[i].type = XD3_ADD
  /\ \E i \in 1..3 :
       whole_target.inst[i].type = XD3_CPY /\ whole_target.inst[i].mode = VCD_SOURCE
  /\ Len(source.inst) = 2

(***************************************************************************)
(* C4.  Address validity of the merge output: when xd3_merge_inputs        *)
(* returns 0, every RUN has addr + 1 <= addslen, every ADD has             *)
(* addr + size <= addslen, every COPY of mode VCD_SOURCE has               *)
(* addr + size <= |S|, and every COPY of mode 0 has addr + size <= its     *)
(* position.                                                               *)
(***************************************************************************)
ValidAddr(st, w, srclen) ==
  IF w.type = XD3_RUN THEN w.addr + 1 <= Len(st.adds)
  ELSE IF w.type = XD3_ADD THEN w.addr + w.size <= Len(st.adds)
  ELSE IF w.mode = VCD_SOURCE THEN w.addr + w.size <= srclen
  ELSE IF w.mode = 0 THEN w.addr + w.size <= w.position
  ELSE TRUE

AddressValidity ==
  MergeDone =>
    \A i \in 1..Len(whole_target.inst) :
      ValidAddr(whole_target, whole_target.inst[i], Len(srcfile))

(***************************************************************************)
(* C9.  Source-copy resolution onto a COPY: a pass of the loop of          *)
(* xd3_merge_source_copy that lands on a source COPY sinst at offset       *)
(* seg_off emits a COPY of size min(remaining, sinst.size - seg_off) with  *)
(* the mode of sinst and address sinst.addr + seg_off.                     *)
(***************************************************************************)
SourceCopyOntoCopy ==
  [][(/\ pc = "sc_loop"
      /\ sinst_num < Len(source.inst)
      /\ At(source.inst, sinst_num).type = XD3_CPY
      /\ ret' = 0)
     => LET sinst == At(source.inst, sinst_num)
            seg_off == iinst.addr - sinst.position
            take == Min(iinst.size, sinst.size - seg_off)
        IN /\ Len(whole_target'.inst) = Len(whole_target.inst) + 1
           /\ Last(whole_target)'.type = XD3_CPY
           /\ Last(whole_target)'.size = take
           /\ Last(whole_target)'.mode = sinst.mode
           /\ Last(whole_target)'.addr = sinst.addr + seg_off]_vars

(***************************************************************************)
(* C10.  Canonical split of a source copy: an input COPY of mode           *)
(* VCD_SOURCE whose range in M meets exactly k instructions of the source  *)
(* state is resolved in exactly k passes of the loop into exactly k output *)
(* instructions, one per source instruction met, in order: each has the    *)
(* size (>= 1) of the overlap and the position of the overlap in T, so the *)
(* sizes sum to the input's size and the positions cover the input's range *)
(* without gap or overlap.  A source RUN gives a RUN with one arena byte,  *)
(* the run's byte; a source ADD gives an ADD with its size in arena bytes, *)
(* those of the overlap.                                                   *)
(***************************************************************************)
Max(a, b) == IF a > b THEN a ELSE b

\* The source instructions (indices from 0) the input copy w meets.
SrcMet(w) ==
  {j \in 0..(Len(source.inst) - 1) :
     /\ At(source.inst, j).position < w.addr + w.size
     /\ w.addr < At(source.inst, j).position + At(source.inst, j).size}

\* The output instructions (indices from 0) inside the target range of w.
OutOf(w) ==
  {o \in 0..(Len(whole_target.inst) - 1) :
     /\ w.position <= At(whole_target.inst, o).position
     /\ At(whole_target.inst, o).position < w.position + w.size}

SetMin(S) == CHOOSE x \in S : \A y \in S : x <= y

\* The arena bytes an instruction owns.
ArenaUse(w) == IF w.type = XD3_RUN THEN 1 ELSE IF w.type = XD3_ADD THEN w.size ELSE 0

RECURSIVE ArenaBefore(_, _)
ArenaBefore(st, n) == IF n = 0 THEN 0 ELSE ArenaBefore(st, n - 1) + ArenaUse(st.inst[n])

\* The sizes of the output instructions first .. first + n - 1 (from 0).
RECURSIVE SumSizes(_, _)
SumSizes(first, n) ==
  IF n = 0 THEN 0 ELSE At(whole_target.inst, first + n - 1).size + SumSizes(first, n - 1)

\* Output instruction o is what source instruction j gives for input copy w.
PieceOf(w, j, o) ==
  LET sj == At(source.inst, j)
      oi == At(whole_target.inst, o)
      lo == Max(w.addr, sj.position)
      hi == Min(w.addr + w.size, sj.position + sj.size)
  IN /\ oi.size = hi - lo
     /\ oi.size >= 1
     /\ oi.position = w.position + (lo - w.addr)
     /\ oi.type = sj.type
     /\ oi.type \in {XD3_RUN, XD3_ADD} => oi.addr = ArenaBefore(whole_target, o)
     /\ oi.type = XD3_RUN => At(whole_target.adds, oi.addr) = At(source.adds, sj.addr)
     /\ oi.type = XD3_ADD =>
          \A t \in 0..(oi.size - 1) :
            At(whole_target.adds, oi.addr + t)
              = At(source.adds, sj.addr + (lo - sj.position) + t)

IsSourceCopy(w) ==
  w.type \notin {XD3_RUN, XD3_ADD} /\ ~(w.mode = 0 \/ w.mode = VCD_TARGET)

CanonicalSplit ==
  /\ (ret = 0 /\ pc \in {"merge_loop", "sc_loop", "merge_ret"}) =>
        /\ Len(whole_target.adds) = ArenaBefore(whole_target, Len(whole_target.inst))
        /\ \A i \in 0..(input_i - 1) :
             LET w == At(input.inst, i)
             IN IsSourceCopy(w) =>
                  /\ SrcMet(w) # {}
                  /\ Cardinality(OutOf(w)) = Cardinality(SrcMet(w))
                  /\ SumSizes(SetMin(OutOf(w)), Cardinality(OutOf(w))) = w.size
                  /\ At(whole_target.inst, SetMin(OutOf(w))).position = w.position
                  /\ \A j \in SrcMet(w) :
                       PieceOf(w, j, SetMin(OutOf(w)) + (j - SetMin(SrcMet(w))))
  /\ (ret = 0 /\ pc \in {"merge_loop", "merge_ret"} /\ input_i > 0
        /\ IsSourceCopy(At(input.inst, input_i - 1))) =>
        sinst_num = SetMin(SrcMet(At(input.inst, input_i - 1)))
                      + Cardinality(SrcMet(At(input.inst, input_i - 1)))
  /\ pc = "sc_loop" =>
        /\ iinst.size > 0
        /\ sinst_num \in SrcMet(CurInst)
        /\ Cardinality(OutOf(CurInst)) = sinst_num - SetMin(SrcMet(CurInst))
        /\ \A j \in SrcMet(CurInst) :
             j < sinst_num =>
               PieceOf(CurInst, j, SetMin(OutOf(CurInst)) + (j - SetMin(SrcMet(CurInst))))

\* A source copy of size 2 was split over a source RUN and a source ADD.
CanonicalSplitWitness ==
  /\ pc = "merge_loop"
  /\ ret = 0
  /\ input_i = 1
  /\ IsSourceCopy(At(input.inst, 0))
  /\ Cardinality(SrcMet(At(input.inst, 0))) = 2
  /\ Len(whole_target.inst) = 2
  /\ whole_target.inst[1].type = XD3_RUN
  /\ whole_target.inst[2].type = XD3_ADD
  /\ source.inst[1].size = 2

(***************************************************************************)
(* C5.  An out-of-range source copy is rejected: for an input COPY of mode *)
(* VCD_SOURCE whose range [addr, addr + size) is not inside                *)
(* [0, source.length), xd3_merge_inputs returns XD3_INVALID_INPUT, reads   *)
(* no source.inst[i] with i >= source.instlen, and (never entering the     *)
(* loop) emits no output instruction for it.                               *)
(***************************************************************************)
OutOfRange(w) == w.addr + w.size > source.length

OutOfRangeRejected ==
  /\ oob = FALSE
  /\ pc = "sc_loop" => ~OutOfRange(CurInst)
  /\ pc \in {"merge_loop", "merge_ret"} =>
       \A i \in 0..(input_i - 1) :
         (IsSourceCopy(At(input.inst, i)) /\ OutOfRange(At(input.inst, i))) =>
           /\ ret = XD3_INVALID_INPUT
           /\ OutOf(At(input.inst, i)) = {}

(***************************************************************************)
(* C6.  The position index: on a whole state satisfying I1,                *)
(* xd3_merge_find_position ends; for address < length it returns 0 with    *)
(* *inst_num the one instruction that produces the byte at address; for    *)
(* address >= length it returns XD3_INVALID_INPUT; it never returns        *)
(* XD3_INTERNAL; and in its loop the instruction looked for has its index  *)
(* in [low, high), an interval that shrinks with every pass.               *)
(***************************************************************************)
FindPositionState ==
  I1(source) =>
    /\ (pc = "find_ret" /\ address < source.length) =>
         /\ ret = 0
         /\ inst_num \in 0..(Len(source.inst) - 1)
         /\ \A i \in 0..(Len(source.inst) - 1) :
              Covers(source, i, address) <=> i = inst_num
    /\ (pc = "find_ret" /\ address >= source.length) => ret = XD3_INVALID_INPUT
    /\ ret # XD3_INTERNAL
    /\ pc = "find_loop" =>
         /\ 0 <= low /\ low <= high /\ high <= Len(source.inst)
         /\ \E i \in low..(high - 1) : Covers(source, i, address)

FindPositionCorrect ==
  /\ []FindPositionState
  /\ [][(pc = "find_loop" /\ pc' = "find_loop") => high' - low' < high - low]_vars

\* The search returned the last of three instructions after narrowing from
\* below.
FindPositionWitness ==
  /\ pc = "find_ret"
  /\ ret = 0
  /\ Len(source.inst) = 3
  /\ inst_num = 2
  /\ low = 2
  /\ address = source.length - 1
  /\ At(source.inst, 2).size = 2

(***************************************************************************)
(* C7.  Address rewriting of the window appender: an                       *)
(* xd3_whole_append_inst that returns 0 appends exactly one instruction,   *)
(* at the position that was the state's length, of the decoded type and    *)
(* size; a COPY whose window address is below dec_cpylen gets the window's *)
(* source mode and address dec_cpyoff + addr, any other COPY gets mode 0   *)
(* and address total_out + (addr - dec_cpylen); a RUN or ADD gets the      *)
(* arena's length as address and the arena grows by 1 (RUN) or size (ADD)  *)
(* bytes of the data section.  A NOOP appends nothing, and dec_current2    *)
(* is appended after dec_current1.                                         *)
(***************************************************************************)
CurHalf == IF pc = "cur1" THEN dec_current1 ELSE dec_current2

WindowMode ==
  IF dec_win_ind \in {VCD_SOURCE, VCD_SOURCE + VCD_ADLER32} THEN VCD_SOURCE ELSE VCD_TARGET

Appended(h) ==
  LET new == Last(whole_target)'
      n == Len(whole_target.inst)
      addslen == Len(whole_target.adds)
  IN /\ Len(whole_target'.inst) = n + 1
     /\ SubSeq(whole_target'.inst, 1, n) = whole_target.inst
     /\ new.type = h.type
     /\ new.size = h.size
     /\ new.position = whole_target.length
     /\ whole_target'.length = whole_target.length + h.size
     /\ h.type = XD3_CPY =>
          /\ whole_target'.adds = whole_target.adds
          /\ data_buf' = data_buf
          /\ IF h.addr < dec_cpylen
               THEN new.mode = WindowMode /\ new.addr = dec_cpyoff + h.addr
               ELSE new.mode = 0 /\ new.addr = total_out + (h.addr - dec_cpylen)
     /\ h.type = XD3_RUN =>
          /\ new.mode = 0
          /\ new.addr = addslen
          /\ whole_target'.adds = Append(whole_target.adds, DataByte(file, data_buf))
          /\ data_buf' = data_buf + 1
     /\ h.type = XD3_ADD =>
          /\ new.mode = 0
          /\ new.addr = addslen
          /\ Len(whole_target'.adds) = addslen + h.size
          /\ \A t \in 0..(h.size - 1) :
               At(whole_target'.adds, addslen + t) = DataByte(file, data_buf + t)
          /\ SubSeq(whole_target'.adds, 1, addslen) = whole_target.adds
          /\ data_buf' = data_buf + h.size

AppenderRewrites ==
  [][(pc \in {"cur1", "cur2"} /\ ret' = 0) =>
       /\ CurHalf.type = XD3_NOOP => whole_target' = whole_target /\ data_buf' = data_buf
       /\ CurHalf.type # XD3_NOOP => Appended(CurHalf)
       /\ (pc = "cur2" /\ CurHalf.type # XD3_NOOP /\ dec_current1.type # XD3_NOOP) =>
            /\ Last(whole_target).type = dec_current1.type
            /\ Last(whole_target).size = dec_current1.size]_vars

\* In a second window, with two target bytes before it, a pair of a RUN and
\* a COPY of the window's own target byte was appended.
AppenderWitness ==
  /\ pc = "win_loop"
  /\ ret = 0
  /\ total_out = 2
  /\ dec_cpylen = 1
  /\ dec_current1.type = XD3_RUN
  /\ dec_current2 = Hinst(XD3_CPY, 1, 1)
  /\ Len(whole_target.inst) = 3
  /\ whole_target.inst[3] = Winst(XD3_CPY, 0, 1, 3, 2)

(***************************************************************************)
(* C8.  Self-consistency on allocation failure: an append step that        *)
(* returns ENOMEM leaves the whole state either with the new instruction   *)
(* fully appended together with its arena data, or with instlen, addslen   *)
(* and length as they were before the step.                                *)
(***************************************************************************)
AllocFailureConsistent ==
  [][(ret = 0 /\ ret' = ENOMEM) =>
       \/ /\ Len(whole_target'.inst) = Len(whole_target.inst)
          /\ Len(whole_target'.adds) = Len(whole_target.adds)
          /\ whole_target'.length = whole_target.length
       \/ /\ Len(whole_target'.inst) = Len(whole_target.inst) + 1
          /\ whole_target'.length = whole_target.length + Last(whole_target)'.size
          /\ Len(whole_target'.adds)
               = Len(whole_target.adds) + ArenaUse(Last(whole_target)')]_vars

====
